---- MODULE Spec2Model ----
(***************************************************************************)
(* Model of the AI code reviewer backend                                   *)
(* (src/ai_code_reviewer_backend/app/routes/code_review.py).               *)
(*                                                                         *)
(* A request travels through the decorator stack of its view function,     *)
(* outermost first: blp.arguments (schema load of the JSON body, POST      *)
(* endpoints only), require_auth (the bearer-token gate), then the view    *)
(* body, which for the POST endpoints makes one blocking outbound call to  *)
(* the provider.  Strings are TLA+ strings; None-able values are sequences *)
(* of length 0 (None / absent) or 1.                                       *)
(***************************************************************************)
EXTENDS Integers, Sequences, FiniteSets, TLC

VARIABLES env, pc, request, body, gate, invoked, calls, reply, response

vars == <<env, pc, request, body, gate, invoked, calls, reply, response>>

----------------------------------------------------------------------------
(* Bounds of the model *)

\* number of requests that may be in progress at the same time
NReq == 2
\* longest bearer token / shared secret that is enumerated
MaxLen == 2

Reqs == 1..NReq

----------------------------------------------------------------------------
(* Python string helpers *)

None == <<>>
Some(v) == <<v>>

\* `not v` for an Optional[str]: None and "" are falsy
Falsy(v) == v = None \/ v[1] = ""

\* str.startswith
StartsWith(s, p) == Len(s) >= Len(p) /\ SubSeq(s, 1, Len(p)) = p

\* str.removeprefix
RemovePrefix(s, p) == IF StartsWith(s, p) THEN SubSeq(s, Len(p) + 1, Len(s)) ELSE s

RECURSIVE LStrip(_)
LStrip(s) == IF Len(s) > 0 /\ SubSeq(s, 1, 1) = " " THEN LStrip(SubSeq(s, 2, Len(s))) ELSE s

RECURSIVE RStrip(_)
RStrip(s) == IF Len(s) > 0 /\ SubSeq(s, Len(s), Len(s)) = " " THEN RStrip(SubSeq(s, 1, Len(s) - 1)) ELSE s

\* str.strip (the only whitespace character enumerated is the space)
Strip(s) == RStrip(LStrip(s))

\* all strings over the characters cs of length at most n
RECURSIVE Strs(_, _)
Strs(cs, n) == IF n = 0 THEN {""} ELSE LET S == Strs(cs, n - 1) IN S \cup {s \o c : s \in S, c \in cs}

----------------------------------------------------------------------------
(* require_auth *)

BearerPrefix == "Bearer "

\* request.headers.get("Authorization", "")
HeaderGet(headers) == IF headers.Authorization = None THEN "" ELSE headers.Authorization[1]

\* the token the gate compares: header.removeprefix("Bearer ").strip()
BearerToken(header) == Strip(RemovePrefix(header, BearerPrefix))

\* the mutants of AuthDecision
AuthDecisionNoSecretCheck(expected_token, header) ==
    IF ~StartsWith(header, BearerPrefix) THEN "Unauthorized"
    ELSE IF expected_token = None \/ BearerToken(header) # expected_token[1] THEN "Forbidden"
    ELSE "pass"

AuthDecisionPrefixMatch(expected_token, header) ==
    IF Falsy(expected_token) \/ ~StartsWith(header, BearerPrefix) THEN "Unauthorized"
    ELSE IF ~StartsWith(expected_token[1], BearerToken(header)) THEN "Forbidden"
    ELSE "pass"

AuthDecisionSwapped(expected_token, header) ==
    IF Falsy(expected_token) \/ ~StartsWith(header, BearerPrefix) THEN "Forbidden"
    ELSE IF BearerToken(header) # expected_token[1] THEN "Unauthorized"
    ELSE "pass"

\* the decision of `decorated`: abort(401), abort(403) or call f
AuthDecision(expected_token, header) ==
    IF Falsy(expected_token) \/ ~StartsWith(header, BearerPrefix) THEN "Unauthorized"
    ELSE IF BearerToken(header) # expected_token[1] THEN "Forbidden"
    ELSE "pass"

HttpCode == [Unauthorized |-> 401, Forbidden |-> 403]

AuthMessage == [Unauthorized |-> "Missing or invalid authorization header.",
                Forbidden |-> "Forbidden: Invalid token."]

\* the JSON error body flask-smorest builds for abort(code, message=...)
ErrorResponse(code, status, message) ==
    [status |-> code, body |-> [code |-> code, status |-> status, message |-> message]]

----------------------------------------------------------------------------
(* CodeSubmissionSchema and blp.arguments *)

Fields == {"code", "language"}

\* JSON values of the request body, tagged with their JSON type
JStr(s) == [type |-> "string", val |-> s]
JNum(n) == [type |-> "number", val |-> n]

EmptyMap == [f \in {} |-> ""]

\* a JSON object with an optional code and an optional language member
MakeJson(c, l) ==
    [f \in {x \in Fields : (x = "code" /\ c # None) \/ (x = "language" /\ l # None)} |->
        IF f = "code" THEN c[1] ELSE l[1]]

\* fields.String(required=True) on both fields
Required == [code |-> TRUE, language |-> TRUE]

\* the fields marshmallow rejects: a required field that is missing, or a
\* value that is no string
SchemaErrors(json) ==
    {f \in Fields : (f \notin DOMAIN json /\ Required[f])
                    \/ (f \in DOMAIN json /\ json[f].type # "string")}

\* the deserialised arguments handed to the view as `body`
SchemaLoad(json) == [f \in DOMAIN json |-> json[f].val]

\* the answer of blp.arguments to a body the schema rejects
UnprocessableResponse(errs) ==
    [status |-> 422, body |-> [code |-> 422, status |-> "Unprocessable Entity", errors |-> errs]]

----------------------------------------------------------------------------
(* the views *)

Endpoints == {"review", "suggestions", "test"}

PostEndpoints == {"review", "suggestions"}

\* dict.get(key, default)
BodyGet(b, key, default) == IF key \in DOMAIN b THEN b[key] ELSE default

DefaultLanguage == "plaintext"

\* the mutant of IsBlank
IsBlankCodeOnly(code, language) == Len(Strip(code)) = 0

\* len(code.strip()) == 0 or len(language.strip()) == 0
IsBlank(code, language) == Len(Strip(code)) = 0 \/ Len(Strip(language)) = 0

ReviewPrompt(language, code) ==
    "Please review the following " \o language \o " code:\n"
    \o "-----------------\n" \o code \o "\n" \o "-----------------\n"
    \o "Identify any issues, improvements, or best practices."

SuggestionsPrompt(language, code) ==
    "Suggest concrete improvements to the following " \o language
    \o " code, explain why each is needed:\n"
    \o "-----------------\n" \o code \o "\n" \o "-----------------"

Prompt(endpoint, language, code) ==
    IF endpoint = "review" THEN ReviewPrompt(language, code)
    ELSE SuggestionsPrompt(language, code)

\* the mutant of PromptFor: the prompt is built from state shared by the requests
PromptForShared(r) ==
    LET q == CHOOSE x \in Reqs : body[x] # EmptyMap /\ \A y \in Reqs : body[y] # EmptyMap => x <= y
    IN Prompt(request[r].endpoint, BodyGet(body[q], "language", DefaultLanguage), body[q].code)

\* the prompt the view of request r builds from its own arguments
PromptFor(r) ==
    Prompt(request[r].endpoint, BodyGet(body[r], "language", DefaultLanguage), body[r].code)

\* the mutant of ViewResult
ViewResultOneField(endpoint, text) == [f \in {"review"} |-> text]

\* the dict the view returns: {"review": review} or {"suggestions": suggestions}
ViewResult(endpoint, text) == [f \in {endpoint} |-> text]

SampleReview == "This is a sample review. Your real reviews will appear here."

OkResponse(payload) == [status |-> 200, body |-> payload]

\* an exception that leaves the view is answered by Flask with 500
InternalErrorResponse == [status |-> 500, body |-> [code |-> 500, status |-> "Internal Server Error"]]

----------------------------------------------------------------------------
(* call_openai_model *)

ApiUrl == "https://api.openai.com/v1/chat/completions"

DefaultTemperature == "0.2"

DefaultMaxTokens == 512

RequestTimeout == 40

\* the mutant of MissingCredentials
MissingCredentialsNoneOnly(key) == key = None

\* `if not OPENAI_API_KEY: raise RuntimeError(...)`
MissingCredentials(key) == Falsy(key)

\* the arguments of requests.post
OutboundRequest(key, prompt) ==
    [url |-> ApiUrl,
     headers |-> [Authorization |-> "Bearer " \o key, ContentType |-> "application/json"],
     json |-> [model |-> "gpt-3.5-turbo",
               messages |-> <<[role |-> "system", content |-> "You are an expert code reviewer."],
                              [role |-> "user", content |-> prompt]>>,
               temperature |-> DefaultTemperature,
               max_tokens |-> DefaultMaxTokens],
     timeout |-> RequestTimeout]

\* what the provider may do with an outbound request: answer with a content,
\* or make one of the statements of the try block raise
Texts == {"LGTM", "", "AI model error: x"}

ProviderOutcomes ==
    {[kind |-> "content", text |-> t] : t \in Texts}
    \cup {[kind |-> "ConnectionError", text |-> "Connection refused"],
          [kind |-> "Timeout", text |-> "Read timed out."],
          [kind |-> "HTTPError", text |-> "500 Server Error"],
          [kind |-> "KeyError", text |-> "'choices'"]}

\* the mutant of ClientResult: the except clause catches the exceptions of
\* requests only
ClientResultNarrowExcept(outcome) ==
    IF outcome.kind = "content" THEN [raised |-> FALSE, value |-> outcome.text]
    ELSE IF outcome.kind = "KeyError" THEN [raised |-> TRUE, value |-> outcome.text]
    ELSE [raised |-> FALSE, value |-> "AI model error: " \o outcome.text]

\* the try/except of call_openai_model: the content, or the exception as text
ClientResult(outcome) ==
    IF outcome.kind = "content" THEN [raised |-> FALSE, value |-> outcome.text]
    ELSE [raised |-> FALSE, value |-> "AI model error: " \o outcome.text]

----------------------------------------------------------------------------
(* the inputs *)

\* bearer tokens and shared secrets: every string of "s" and " " up to MaxLen
Tokens == Strs({"s", " "}, MaxLen)

Secrets == {None} \cup {Some(t) : t \in Tokens}

ProviderKeys == {None, Some(""), Some("k")}

\* Authorization headers: absent, the scheme prefix with every token, the
\* scheme without its space, no scheme at all, and two other schemes
HeaderValues ==
    {None} \cup {Some(p \o t) : p \in {"Bearer ", "Bearer", ""}, t \in Tokens}
    \cup {Some("bearer s"), Some("Basic s")}

CodeValues == {None, Some(JNum(7)), Some(JStr("")), Some(JStr(" ")), Some(JStr("x")), Some(JStr(" x "))}

LanguageValues == {None, Some(JNum(7)), Some(JStr("")), Some(JStr("  ")), Some(JStr("py"))}

JsonBodies == {MakeJson(c, l) : c \in CodeValues, l \in LanguageValues}

\* the smaller inputs of the concurrent specification
ConcHeaderValues == {None, Some("Bearer s"), Some("Bearer ss")}

ConcJsonBodies ==
    {MakeJson(Some(JStr(c)), Some(JStr("py"))) : c \in {"x", "y", " "}}
    \cup {MakeJson(Some(JStr("x")), None)}

ConcOutcomes == {[kind |-> "content", text |-> "LGTM"], [kind |-> "Timeout", text |-> "Read timed out."]}

----------------------------------------------------------------------------
(* the state machine *)

NoRequest == [endpoint |-> "", headers |-> [Authorization |-> None], json |-> EmptyMap]

Idle ==
    /\ pc = [r \in Reqs |-> "idle"]
    /\ request = [r \in Reqs |-> NoRequest]
    /\ body = [r \in Reqs |-> EmptyMap]
    /\ gate = [r \in Reqs |-> "pending"]
    /\ invoked = [r \in Reqs |-> FALSE]
    /\ calls = [r \in Reqs |-> <<>>]
    /\ reply = [r \in Reqs |-> None]
    /\ response = [r \in Reqs |-> None]

\* no request yet; the process configuration is whatever the deployment set
Init ==
    /\ env \in [API_AUTH_TOKEN : Secrets, OPENAI_API_KEY : ProviderKeys]
    /\ Idle

InitConc ==
    /\ env \in [API_AUTH_TOKEN : {Some("s")}, OPENAI_API_KEY : {None, Some("k")}]
    /\ Idle

Finish(r, resp) ==
    /\ response' = [response EXCEPT ![r] = Some(resp)]
    /\ pc' = [pc EXCEPT ![r] = "done"]

\* a request arrives and is routed to the decorated view of its endpoint
Receive(r, headerValues, jsonBodies) ==
    /\ pc[r] = "idle"
    /\ \E ep \in Endpoints, h \in headerValues, j \in jsonBodies :
        /\ request' = [request EXCEPT ![r] =
               [endpoint |-> ep, headers |-> [Authorization |-> h],
                json |-> IF ep \in PostEndpoints THEN j ELSE EmptyMap]]
        /\ pc' = [pc EXCEPT ![r] = IF ep \in PostEndpoints THEN "arguments" ELSE "require_auth"]
    /\ UNCHANGED <<env, body, gate, invoked, calls, reply, response>>

\* @blp.arguments(CodeSubmissionSchema), the outermost decorator of both post views
Arguments(r) ==
    /\ pc[r] = "arguments"
    /\ LET errs == SchemaErrors(request[r].json) IN
        IF errs # {}
        THEN /\ Finish(r, UnprocessableResponse(errs))
             /\ UNCHANGED body
        ELSE /\ body' = [body EXCEPT ![r] = SchemaLoad(request[r].json)]
             /\ pc' = [pc EXCEPT ![r] = "require_auth"]
             /\ UNCHANGED response
    /\ UNCHANGED <<env, request, gate, invoked, calls, reply>>

\* @require_auth, the innermost decorator of every view
RequireAuth(r) ==
    /\ pc[r] = "require_auth"
    /\ LET d == AuthDecision(env.API_AUTH_TOKEN, HeaderGet(request[r].headers)) IN
        /\ gate' = [gate EXCEPT ![r] = d]
        /\ IF d = "pass"
           THEN /\ pc' = [pc EXCEPT ![r] = "view"]
                /\ UNCHANGED response
           ELSE Finish(r, ErrorResponse(HttpCode[d], d, AuthMessage[d]))
    /\ UNCHANGED <<env, request, body, invoked, calls, reply>>

\* DummyGetReviewAPI.get
Get(r) ==
    /\ pc[r] = "view"
    /\ request[r].endpoint = "test"
    /\ invoked' = [invoked EXCEPT ![r] = TRUE]
    /\ Finish(r, OkResponse([review |-> SampleReview]))
    /\ UNCHANGED <<env, request, body, gate, calls, reply>>

\* CodeReviewAPI.post and ImprovementSuggestionsAPI.post, up to the point where
\* call_openai_model blocks in requests.post
Post(r) ==
    /\ pc[r] = "view"
    /\ request[r].endpoint \in PostEndpoints
    /\ invoked' = [invoked EXCEPT ![r] = TRUE]
    /\ LET code == body[r].code
           language == BodyGet(body[r], "language", DefaultLanguage)
       IN IF IsBlank(code, language)
          THEN /\ Finish(r, ErrorResponse(400, "Bad Request", "Both code and language are required."))
               /\ UNCHANGED calls
          ELSE IF MissingCredentials(env.OPENAI_API_KEY)
          THEN /\ Finish(r, InternalErrorResponse)
               /\ UNCHANGED calls
          ELSE /\ calls' = [calls EXCEPT ![r] =
                      Append(@, OutboundRequest(env.OPENAI_API_KEY[1], PromptFor(r)))]
               /\ pc' = [pc EXCEPT ![r] = "provider"]
               /\ UNCHANGED response
    /\ UNCHANGED <<env, request, body, gate, reply>>

\* requests.post returns or raises; call_openai_model returns and the view
\* returns its dict
ProviderReturns(r, outcomes) ==
    /\ pc[r] = "provider"
    /\ \E o \in outcomes :
        /\ reply' = [reply EXCEPT ![r] = Some(o)]
        /\ LET res == ClientResult(o) IN
            IF res.raised
            THEN Finish(r, InternalErrorResponse)
            ELSE Finish(r, OkResponse(ViewResult(request[r].endpoint, res.value)))
    /\ UNCHANGED <<env, request, body, gate, invoked, calls>>

\* one request at a time, every input
Next ==
    \E r \in {1} :
        \/ Receive(r, HeaderValues, JsonBodies)
        \/ Arguments(r)
        \/ RequireAuth(r)
        \/ Get(r)
        \/ Post(r)
        \/ ProviderReturns(r, ProviderOutcomes)

Spec == Init /\ [][Next]_vars

\* NReq requests in progress at once
NextConc ==
    \E r \in Reqs :
        \/ Receive(r, ConcHeaderValues, ConcJsonBodies)
        \/ Arguments(r)
        \/ RequireAuth(r)
        \/ Get(r)
        \/ Post(r)
        \/ ProviderReturns(r, ConcOutcomes)

SpecConc == InitConc /\ [][NextConc]_vars

----------------------------------------------------------------------------
(* what the claims speak about, read off the request and the configuration *)

Arrived(r) == pc[r] # "idle"

Done(r) == pc[r] = "done"

Status(r) == response[r][1].status

IsPost(r) == request[r].endpoint \in {"review", "suggestions"}

SecretUnset == env.API_AUTH_TOKEN = None \/ env.API_AUTH_TOKEN = Some("")

KeyUnset == env.OPENAI_API_KEY = None \/ env.OPENAI_API_KEY = Some("")

HeaderText(r) == IF request[r].headers.Authorization = None THEN "" ELSE request[r].headers.Authorization[1]

\* the header is present and begins with the scheme prefix
WellFormed(r) == Len(HeaderText(r)) >= 7 /\ SubSeq(HeaderText(r), 1, 7) = "Bearer "

\* the text that follows the scheme prefix
RawToken(r) == SubSeq(HeaderText(r), 8, Len(HeaderText(r)))

\* the request carries the right credential, whitespace around it aside
Authenticated(r) == ~SecretUnset /\ WellFormed(r) /\ env.API_AUTH_TOKEN = Some(Strip(RawToken(r)))

StringField(r, f) == f \in DOMAIN request[r].json /\ request[r].json[f].type = "string"

NonBlankField(r, f) == StringField(r, f) /\ Strip(request[r].json[f].val) # ""

BlankField(r, f) == StringField(r, f) /\ Strip(request[r].json[f].val) = ""

ValidBody(r) == NonBlankField(r, "code") /\ NonBlankField(r, "language")

\* the text call_openai_model hands back for the provider's reply to request r
ReturnedText(r) ==
    IF reply[r][1].kind = "content" THEN reply[r][1].text
    ELSE "AI model error: " \o reply[r][1].text

ResultBody(r, text) ==
    IF request[r].endpoint = "review" THEN [review |-> text] ELSE [suggestions |-> text]

----------------------------------------------------------------------------
(* C1 *)

NoCredential(r) == SecretUnset \/ request[r].headers.Authorization = None \/ ~WellFormed(r)

\* C1: when the expected secret is unset or empty, or the Authorization header is
\* absent, or it does not begin with "Bearer ", the wrapped view is never invoked
\* and the gate, whenever it decides, answers 401 Unauthorized.
C1_UnauthorizedWithoutCredential ==
    \A r \in Reqs : (Arrived(r) /\ NoCredential(r)) =>
        /\ ~invoked[r]
        /\ pc[r] # "view"
        /\ gate[r] \in {"pending", "Unauthorized"}
        /\ (gate[r] = "Unauthorized" => Done(r) /\ Status(r) = 401)
        /\ (Done(r) /\ ~IsPost(r) => Status(r) = 401)

\* the secret is the empty string and the header is "Bearer ": the token equals
\* the secret, and the gate has answered 401
C1_Witness ==
    \E r \in Reqs : /\ env.API_AUTH_TOKEN = Some("")
                    /\ HeaderText(r) = "Bearer "
                    /\ gate[r] = "Unauthorized" /\ Done(r) /\ Status(r) = 401

----------------------------------------------------------------------------
(* C2 *)

\* C2 as stated: the gate passes only a header whose text after "Bearer " equals
\* the secret character for character, and answers 403 to every other
\* well-formed header.
C2_ExactMatchOnly ==
    \A r \in Reqs : gate[r] # "pending" =>
        /\ (gate[r] = "pass" => WellFormed(r) /\ env.API_AUTH_TOKEN = Some(RawToken(r)))
        /\ (~SecretUnset /\ WellFormed(r) /\ env.API_AUTH_TOKEN # Some(RawToken(r))
                => gate[r] = "Forbidden" /\ ~invoked[r])

\* C2 as amended: the gate passes only a header whose text after "Bearer ", with
\* the whitespace around it removed, equals the secret; every well-formed header
\* whose trimmed token differs from the configured secret is answered 403 and
\* the view is not invoked.
C2_TrimmedMatchOnly ==
    \A r \in Reqs : gate[r] # "pending" =>
        /\ (gate[r] = "pass" => WellFormed(r) /\ env.API_AUTH_TOKEN = Some(Strip(RawToken(r))))
        /\ (~SecretUnset /\ WellFormed(r) /\ env.API_AUTH_TOKEN # Some(Strip(RawToken(r)))
                => gate[r] = "Forbidden" /\ ~invoked[r] /\ Done(r) /\ Status(r) = 403)

\* a token with whitespace around it has passed the gate and reached the view
C2_Witness ==
    \E r \in Reqs : /\ gate[r] = "pass" /\ invoked[r]
                    /\ RawToken(r) # Strip(RawToken(r))

----------------------------------------------------------------------------
(* C3 *)

WrongToken(r) == env.API_AUTH_TOKEN # Some(Strip(RawToken(r)))

\* C3 as stated: without a well-formed credential the gate yields 401, with a
\* well-formed but wrong one it yields 403 whatever the secret is (unset
\* included), and every request not passed through gets exactly one of the two.
C3_MalformedVsWrong ==
    \A r \in Reqs : gate[r] # "pending" =>
        /\ (~WellFormed(r) => gate[r] = "Unauthorized")
        /\ (WellFormed(r) /\ WrongToken(r) => gate[r] = "Forbidden")
        /\ gate[r] \in {"Unauthorized", "Forbidden", "pass"}

\* C3 as amended: without a well-formed credential, or with the secret unset or
\* empty, the gate yields 401; with a well-formed credential whose trimmed token
\* differs from a configured secret it yields 403; the two cases exclude each
\* other and cover exactly the requests that are not passed through.
C3_UnsetOrMalformedVsWrong ==
    \A r \in Reqs : gate[r] # "pending" =>
        LET c401 == ~WellFormed(r) \/ SecretUnset
            c403 == WellFormed(r) /\ ~SecretUnset /\ WrongToken(r)
        IN /\ ~(c401 /\ c403)
           /\ (c401 <=> gate[r] = "Unauthorized")
           /\ (c403 <=> gate[r] = "Forbidden")
           /\ (gate[r] = "pass" <=> ~c401 /\ ~c403)
           /\ (gate[r] = "Unauthorized" => Done(r) /\ Status(r) = 401)
           /\ (gate[r] = "Forbidden" => Done(r) /\ Status(r) = 403)

\* a well-formed header met an unset secret and was answered 401
C3_Witness ==
    \E r \in Reqs : /\ gate[r] = "Unauthorized" /\ Done(r) /\ Status(r) = 401
                    /\ WellFormed(r) /\ env.API_AUTH_TOKEN = None

----------------------------------------------------------------------------
(* C4 *)

\* C4: on the POST endpoints the auth decision comes before any look at the
\* body: a request that fails auth is answered 401 or 403 whatever its body, and
\* a body-validation failure is only answered to a request that passed auth.
C4_AuthBeforeBody ==
    \A r \in Reqs : (Done(r) /\ IsPost(r)) =>
        /\ (~Authenticated(r) => Status(r) \in {401, 403})
        /\ (Status(r) \in {400, 422} => gate[r] = "pass")

----------------------------------------------------------------------------
(* C5 *)

\* C5: an authenticated POST whose code or language is empty after trimming is
\* answered 400 and causes no provider call.
C5_BlankIsBadRequest ==
    \A r \in Reqs :
        (IsPost(r) /\ Authenticated(r) /\ StringField(r, "code") /\ StringField(r, "language")
         /\ (BlankField(r, "code") \/ BlankField(r, "language"))) =>
            /\ calls[r] = <<>>
            /\ reply[r] = None
            /\ pc[r] # "provider"
            /\ (Done(r) => Status(r) = 400)

\* the code is fine, the language is blanks only, and the answer is 400
C5_Witness ==
    \E r \in Reqs : /\ IsPost(r) /\ Authenticated(r)
                    /\ NonBlankField(r, "code") /\ BlankField(r, "language")
                    /\ Done(r) /\ Status(r) = 400 /\ invoked[r]

----------------------------------------------------------------------------
(* C6 *)

----------------------------------------------------------------------------
(* C7 *)

\* C7: an authenticated POST with a non-empty code and no language field is
\* accepted: the prompt is built with "plaintext", the provider is called and
\* the answer is 200.
C7_LanguageDefaults ==
    \A r \in Reqs :
        (Done(r) /\ IsPost(r) /\ Authenticated(r) /\ ~KeyUnset
         /\ NonBlankField(r, "code") /\ "language" \notin DOMAIN request[r].json) =>
            /\ Status(r) = 200
            /\ Len(calls[r]) = 1
            /\ calls[r][1].json.messages[2].content
                 = Prompt(request[r].endpoint, "plaintext", request[r].json.code.val)

----------------------------------------------------------------------------
(* C8 *)

----------------------------------------------------------------------------
(* C9 *)

\* C9: with the provider credential absent or empty the provider client fails
\* fast: it raises before any outbound request is built or sent, and the
\* failure is never reported as an "AI model error: ..." text result.
C9_FailFastWithoutKey ==
    \A r \in Reqs : (KeyUnset /\ IsPost(r) /\ invoked[r] /\ ValidBody(r)) =>
        /\ calls[r] = <<>>
        /\ reply[r] = None
        /\ Done(r)
        /\ Status(r) = 500
        /\ DOMAIN response[r][1].body \cap {"review", "suggestions"} = {}

\* the credential is the empty string and a valid request has ended in the raise
C9_Witness ==
    \E r \in Reqs : /\ env.OPENAI_API_KEY = Some("")
                    /\ IsPost(r) /\ invoked[r] /\ ValidBody(r)
                    /\ Done(r) /\ Status(r) = 500

----------------------------------------------------------------------------
(* C10 *)

\* C10: under every interleaving each request causes at most one outbound call,
\* only after it passed the gate and the validation (never when rejected, never
\* for GET /api/review/test); the prompt is built from that request's own
\* language and code, and the response carries the result of its own call.
C10_OwnCallOnly ==
    \A r \in Reqs :
        /\ Len(calls[r]) <= 1
        /\ (reply[r] # None => calls[r] # <<>>)
        /\ (calls[r] # <<>> =>
                /\ IsPost(r) /\ gate[r] = "pass" /\ Authenticated(r) /\ ValidBody(r)
                /\ calls[r][1].json.messages[2].content
                     = Prompt(request[r].endpoint, request[r].json.language.val,
                              request[r].json.code.val))
        /\ (Done(r) /\ Status(r) = 200 =>
                IF IsPost(r)
                THEN reply[r] # None /\ response[r][1].body = ResultBody(r, ReturnedText(r))
                ELSE calls[r] = <<>> /\ response[r][1].body = [review |-> SampleReview])

\* two requests with different code wait for the provider at the same time
C10_Witness ==
    \E r, q \in Reqs : /\ r # q
                       /\ pc[r] = "provider" /\ pc[q] = "provider"
                       /\ request[r].json.code # request[q].json.code

====
